---- MODULE Spec2Model ----
(***************************************************************************)
(* Model of the image registry and the batch orchestrator of Magic Cutout  *)
(* (src/App.tsx, src/services/gemini.ts, src/unnamed/part_000 = types.ts). *)
(*                                                                         *)
(* The React state `images` is the registry; every setImages(prev => ...)  *)
(* updater is applied, in call order, to the current registry.  An async   *)
(* function runs atomically from one `await` to the next, so one action    *)
(* models one such segment.  When an awaited processSingleImage returns,   *)
(* the `for` loop of startBatchProcess resumes in a microtask, before any  *)
(* user event or collaborator callback: the end of a batch run and the     *)
(* start of the next one are therefore one action.                         *)
(*                                                                         *)
(* A button is rendered from the current registry: its handler is called   *)
(* with the record as it is in the registry at the click.  In Spec every   *)
(* record id (Math.random) is a new one; SpecRandomIds lets a draw repeat. *)
(*                                                                         *)
(* Strings that the code transforms (subject label, file name) are         *)
(* sequences of one-character strings.  Optional values (undefined / null) are None,    *)
(* present values are Some(v).                                             *)
(***************************************************************************)
EXTENDS Integers, Sequences, FiniteSets, Bags, TLC

\* ------------------------------------------------------------------ bounds
\* Total number of files the user ever selects.
MaxFiles == 2
\* Total number of pipeline runs (processSingleImage calls that pass the guard).
MaxRuns == 3

\* ------------------------------------------------------------------ values
None == <<>>
Some(v) == <<v>>

Statuses == {"pending", "analyzing", "processing", "completed", "error"}

PhotoJpg == <<"p", "h", "o", "t", "o", ".", "j", "p", "g">>

Names == {PhotoJpg}

Whitespace == {" ", "\t", "\n"}

MainSubject == <<"M", "a", "i", "n", " ", "S", "u", "b", "j", "e", "c", "t">>

ProcessedImageLabel ==
    <<"P", "r", "o", "c", "e", "s", "s", "e", "d", " ", "I", "m", "a", "g", "e">>

GenericError == "Failed to process image"

\* What a failing await can throw: an error without message, with an empty
\* message, or with a message.
Errs == {[message |-> None], [message |-> Some("")], [message |-> Some("Network error")]}

\* What reader.result can be when onloadend fires.
Base64s == {None, Some("data:image/jpeg;base64,AAAA")}

\* What ai.models.generateContent can do: throw, or answer with a response
\* whose .text is undefined, empty, blank or a label with surrounding blanks.
Responses ==
    { [throws |-> TRUE,  text |-> None],
      [throws |-> FALSE, text |-> None],
      [throws |-> FALSE, text |-> Some(<<>>)],
      [throws |-> FALSE, text |-> Some(<<" ", " ">>)],
      [throws |-> FALSE, text |-> Some(<<" ", "d", "o", "g", "\n">>)] }

\* ------------------------------------------------------------------ state
VARIABLES
    images,        \* useState<ProcessedImage[]>: the registry, in order
    isProcessing,  \* useState(false): the batch-in-progress flag
    queue,         \* `pending` of the running (or last) startBatchProcess
    batchIdx,      \* position of the for-loop in `queue` (0: never started)
    runs,          \* the processSingleImage calls suspended at an await (a bag:
                   \* two calls can be at the same place with the same arguments)
    nextRun,       \* number of the next pipeline run
    nextId,        \* number of the next file selected (its record's id in Spec)
    revokes,       \* revokes[h]: how often URL.revokeObjectURL(h) was called,
                   \* for every handle h that URL.createObjectURL returned
    batchStarts,   \* history: ids whose run the current batch has started
    batchLog,      \* history: [id, ok] of each ended run of the current batch
    manualIds,     \* history: ids a manual trigger has started a run for
    saves          \* link.click(): the link (href, download) of every save triggered

vars == <<images, isProcessing, queue, batchIdx, runs, nextRun, nextId, revokes,
          batchStarts, batchLog, manualIds, saves>>

\* ------------------------------------------------------------------ helpers
Ids(imgs) == {imgs[i].id : i \in DOMAIN imgs}

HasId(imgs, id) == id \in Ids(imgs)

\* imgs.find(img => img.id === id): the first record with that id.
Rec(imgs, id) ==
    imgs[CHOOSE i \in DOMAIN imgs :
             imgs[i].id = id /\ \A j \in 1..(i - 1) : imgs[j].id # id]

\* Mutant of Patch: the patch is spread over the record as it was when it
\* was added, not over the current one.
PatchStale(img, patch) ==
    [f \in DOMAIN img |->
        IF f \in DOMAIN patch THEN patch[f]
        ELSE IF f \in {"id", "originalName", "originalUrl"} THEN img[f]
        ELSE IF f = "status" THEN "pending" ELSE <<>>]

\* { ...img, ...patch }
Patch(img, patch) ==
    [f \in DOMAIN img |-> IF f \in DOMAIN patch THEN patch[f] ELSE img[f]]

\* Mutant of UpdateRecord: an update for an id that is gone puts a record back.
UpdateRecordUpsert(imgs, id, patch) ==
    IF \E i \in DOMAIN imgs : imgs[i].id = id
    THEN [i \in DOMAIN imgs |-> IF imgs[i].id = id THEN Patch(imgs[i], patch) ELSE imgs[i]]
    ELSE Append(imgs, Patch([id |-> id, originalName |-> PhotoJpg,
                             originalUrl |-> <<"original", id>>, processedUrl |-> None,
                             status |-> "pending", subject |-> None, error |-> None], patch))

\* setImages(prev => prev.map(img => img.id === id ? { ...img, ...patch } : img))
UpdateRecord(imgs, id, patch) ==
    [i \in DOMAIN imgs |-> IF imgs[i].id = id THEN Patch(imgs[i], patch) ELSE imgs[i]]

AnalyzingPatch == [status |-> "analyzing"]

ProcessingPatch == [status |-> "processing"]

CompletedPatch(processedUrl, subject) ==
    [status |-> "completed", processedUrl |-> Some(processedUrl), subject |-> Some(subject)]

\* err.message || "Failed to process image"
ErrMessage(err) ==
    IF err.message = None \/ err.message = Some("") THEN GenericError ELSE err.message[1]

\* Mutant of ErrorPatch: the catch block records the message and forgets the status.
ErrorPatchNoStatus(err) == [error |-> Some(ErrMessage(err))]

ErrorPatch(err) == [status |-> "error", error |-> Some(ErrMessage(err))]

\* if (image.status === 'completed') return;
Guard(image) == image.status = "completed"

\* String.prototype.trim
RECURSIVE TrimLeft(_)
TrimLeft(s) == IF s # <<>> /\ Head(s) \in Whitespace THEN TrimLeft(Tail(s)) ELSE s

RECURSIVE TrimRight(_)
TrimRight(s) ==
    IF s # <<>> /\ s[Len(s)] \in Whitespace THEN TrimRight(SubSeq(s, 1, Len(s) - 1)) ELSE s

Trim(s) == TrimRight(TrimLeft(s))

\* Mutant of IdentifySubject: no try/catch around the model call.
IdentifySubjectRethrow(base64, resp) ==
    IF base64 = None \/ resp.throws
    THEN [ok |-> FALSE, err |-> [message |-> Some("Network error")]]
    ELSE IF resp.text # None /\ Trim(resp.text[1]) # <<>>
         THEN [ok |-> TRUE, value |-> Trim(resp.text[1])]
         ELSE [ok |-> TRUE, value |-> MainSubject]

\* Mutant of IdentifySubject: the answer is tested before it is trimmed, so a
\* blank answer is returned as an empty label.
IdentifySubjectNoTrim(base64, resp) ==
    IF base64 = None \/ resp.throws
    THEN [ok |-> TRUE, value |-> ProcessedImageLabel]
    ELSE IF resp.text # None /\ resp.text[1] # <<>>
         THEN [ok |-> TRUE, value |-> Trim(resp.text[1])]
         ELSE [ok |-> TRUE, value |-> MainSubject]

\* identifySubject: [ok |-> TRUE, value |-> label] when it returns, and
\* [ok |-> FALSE, err |-> e] when it throws to its caller.  base64 = None is
\* a FileReader that ended without a result: base64Image.split then throws
\* inside the try block.
IdentifySubject(base64, resp) ==
    IF base64 = None \/ resp.throws
    THEN [ok |-> TRUE, value |-> ProcessedImageLabel]
    ELSE IF resp.text # None /\ Trim(resp.text[1]) # <<>>
         THEN [ok |-> TRUE, value |-> Trim(resp.text[1])]
         ELSE [ok |-> TRUE, value |-> MainSubject]

\* Mutant of IsPending: the batch also takes the failed records.
IsPendingOrError(img) == img.status \in {"pending", "error"}

\* images.filter(img => img.status === 'pending')
IsPending(img) == img.status = "pending"

PendingOf(imgs) == SelectSeq(imgs, IsPending)

\* The record handleFileSelect builds for one file.
NewImage(id, name, url) ==
    [id |-> id, originalName |-> name, originalUrl |-> url, processedUrl |-> None,
     status |-> "pending", subject |-> None, error |-> None]

\* URL.createObjectURL returns a fresh handle: the one of a file is named
\* after the number of the file (which is also the id of its record when ids
\* are fresh), the one of a result after the id of the record and the number
\* of results created for that id before.
OriginalUrlOf(n) == <<"original", n>>

ProcessedUrlOf(rv, id) ==
    <<"processed", id,
      Cardinality({h \in DOMAIN rv : h[1] = "processed" /\ h[2] = id}) + 1>>

\* The handle table after URL.createObjectURL returned h.
CreateUrl(rv, h) == rv @@ (h :> 0)

\* The handle table after URL.revokeObjectURL(h).
Revoke(rv, h) == [rv EXCEPT ![h] = @ + 1]

\* Pipeline runs of the running batch that are still to be started.
BatchLeft == IF isProcessing THEN Len(queue) - batchIdx ELSE 0

NewRun(image, src) ==
    [image |-> image, src |-> src, pc |-> "read", processedUrl |-> None]

\* The suspended calls after one more call, after the call r has returned, and
\* after the call r has moved on to r2.
AddRun(rs, r) == rs (+) SetToBag({r})

DropRun(rs, r) == rs (-) SetToBag({r})

MoveRun(rs, r, r2) == AddRun(DropRun(rs, r), r2)

\* ------------------------------------------------------------------ Init
Init ==
    /\ images = <<>>
    /\ isProcessing = FALSE
    /\ queue = <<>>
    /\ batchIdx = 0
    /\ runs = EmptyBag
    /\ nextRun = 1
    /\ nextId = 1
    /\ revokes = << >>
    /\ batchStarts = <<>>
    /\ batchLog = <<>>
    /\ manualIds = {}
    /\ saves = <<>>

\* ------------------------------------------------------------------ registry
\* The sets of files one file selection can deliver (e.target.files).
FilePicks == UNION {[1..k -> Names] : k \in 0..(MaxFiles - (nextId - 1))}

\* Mutant of HandleFileSelectIds: setImages(prev => [...newImages, ...prev]).
HandleFileSelectPrepend(files, ids) ==
    /\ images' = [k \in 1..Len(files) |->
                      NewImage(ids[k], files[k], OriginalUrlOf(nextId + k - 1))] \o images
    /\ nextId' = nextId + Len(files)
    /\ revokes' = revokes @@
           [h \in {OriginalUrlOf(nextId + k - 1) : k \in 1..Len(files)} |-> 0]
    /\ UNCHANGED <<isProcessing, queue, batchIdx, runs, nextRun,
                   batchStarts, batchLog, manualIds, saves>>

\* handleFileSelect when Math.random().toString(36).substr(2, 9) gives ids[k]
\* for files[k]: one pending record per file, appended in input order.
HandleFileSelectIds(files, ids) ==
    /\ images' = images \o
           [k \in 1..Len(files) |-> NewImage(ids[k], files[k], OriginalUrlOf(nextId + k - 1))]
    /\ nextId' = nextId + Len(files)
    /\ revokes' = revokes @@
           [h \in {OriginalUrlOf(nextId + k - 1) : k \in 1..Len(files)} |-> 0]
    /\ UNCHANGED <<isProcessing, queue, batchIdx, runs, nextRun,
                   batchStarts, batchLog, manualIds, saves>>

\* handleFileSelect when every id drawn is a new one.
HandleFileSelect(files) ==
    HandleFileSelectIds(files, [k \in 1..Len(files) |-> nextId + k - 1])

\* Mutant of RevokeRemoved: the second revoke names originalUrl again.
RevokeRemovedCopyPaste(rv, prev, id) ==
    IF ~HasId(prev, id) THEN rv
    ELSE LET img == Rec(prev, id)
             rv1 == Revoke(rv, img.originalUrl)
         IN  IF img.processedUrl # None THEN Revoke(rv1, img.originalUrl) ELSE rv1

\* The handle table after removeImage's updater ran on prev for id.
RevokeRemoved(rv, prev, id) ==
    IF ~HasId(prev, id) THEN rv
    ELSE LET img == Rec(prev, id)
             rv1 == Revoke(rv, img.originalUrl)
         IN  IF img.processedUrl # None THEN Revoke(rv1, img.processedUrl[1]) ELSE rv1

\* prev.filter(img => img.id !== id)
Filtered(prev, id) == SelectSeq(prev, LAMBDA img : img.id # id)

\* removeImage(id), for any id ever allocated.
RemoveImage(id) ==
    /\ images' = Filtered(images, id)
    /\ revokes' = RevokeRemoved(revokes, images, id)
    /\ UNCHANGED <<isProcessing, queue, batchIdx, runs, nextRun, nextId,
                   batchStarts, batchLog, manualIds, saves>>

\* The Reset button: onClick={() => setImages([])}, shown when images.length > 0.
\* It calls nothing else: no URL.revokeObjectURL.
Reset ==
    /\ Len(images) > 0
    /\ images' = <<>>
    /\ UNCHANGED <<isProcessing, queue, batchIdx, runs, nextRun, nextId, revokes,
                   batchStarts, batchLog, manualIds, saves>>

\* ------------------------------------------------------------------ pipeline
\* First snapshot position from i on whose processSingleImage call passes the
\* guard (Len(q) + 1 when there is none).
RECURSIVE NextRunnable(_, _)
NextRunnable(q, i) ==
    IF i > Len(q) THEN Len(q) + 1
    ELSE IF Guard(q[i]) THEN NextRunnable(q, i + 1) ELSE i

\* Mutant of BatchContinue: the flag is cleared when the run of the last
\* snapshot record starts, not when it has ended.
BatchContinueEarlyClear(imgs, rs, q, i, starts) ==
    LET j == NextRunnable(q, i) IN
    /\ batchIdx' = j
    /\ IF j <= Len(q)
       THEN /\ images' = UpdateRecord(imgs, q[j].id, AnalyzingPatch)
            /\ runs' = AddRun(rs, NewRun(q[j], "batch"))
            /\ nextRun' = nextRun + 1
            /\ isProcessing' = (j < Len(q))
            /\ batchStarts' = Append(starts, q[j].id)
       ELSE /\ images' = imgs
            /\ runs' = rs
            /\ nextRun' = nextRun
            /\ isProcessing' = FALSE
            /\ batchStarts' = starts

\* The for-loop of startBatchProcess from position i on, up to its next await:
\* it calls processSingleImage(q[j]), which marks the record analyzing and
\* suspends at fetch; or the loop is over and the flag is cleared.
BatchContinue(imgs, rs, q, i, starts) ==
    LET j == NextRunnable(q, i) IN
    /\ batchIdx' = j
    /\ IF j <= Len(q)
       THEN /\ images' = UpdateRecord(imgs, q[j].id, AnalyzingPatch)
            /\ runs' = AddRun(rs, NewRun(q[j], "batch"))
            /\ nextRun' = nextRun + 1
            /\ isProcessing' = TRUE
            /\ batchStarts' = Append(starts, q[j].id)
       ELSE /\ images' = imgs
            /\ runs' = rs
            /\ nextRun' = nextRun
            /\ isProcessing' = FALSE
            /\ batchStarts' = starts

\* Mutant of StartBatchProcess: pending.forEach(processSingleImage), no await.
StartBatchNoAwait ==
    /\ ~isProcessing
    /\ LET pending == PendingOf(images) IN
       /\ Len(pending) > 0
       /\ nextRun - 1 + Len(pending) <= MaxRuns
       /\ queue' = pending
       /\ batchLog' = <<>>
       /\ batchIdx' = Len(pending) + 1
       /\ images' = [i \in DOMAIN images |->
                        IF IsPending(images[i]) THEN Patch(images[i], AnalyzingPatch)
                        ELSE images[i]]
       /\ runs' = runs (+) SetToBag({NewRun(pending[k], "batch") : k \in DOMAIN pending})
       /\ nextRun' = nextRun + Len(pending)
       /\ isProcessing' = FALSE
       /\ batchStarts' = [k \in DOMAIN pending |-> pending[k].id]
       /\ UNCHANGED <<nextId, revokes, manualIds, saves>>

\* startBatchProcess, behind its button (disabled while isProcessing).
StartBatchProcess ==
    /\ ~isProcessing
    /\ LET pending == PendingOf(images) IN
       IF Len(pending) = 0
       THEN UNCHANGED vars
       ELSE /\ nextRun - 1 + Len(pending) <= MaxRuns
            /\ queue' = pending
            /\ batchLog' = <<>>
            /\ BatchContinue(images, runs, pending, 1, <<>>)
            /\ UNCHANGED <<nextId, revokes, manualIds, saves>>

\* processSingleImage(image) called from a button, up to its first await.
StartManual(image) ==
    /\ nextRun + BatchLeft <= MaxRuns
    /\ manualIds' = manualIds \cup {image.id}
    /\ IF Guard(image)
       THEN UNCHANGED <<images, runs, nextRun>>
       ELSE /\ images' = UpdateRecord(images, image.id, AnalyzingPatch)
            /\ runs' = AddRun(runs, NewRun(image, "manual"))
            /\ nextRun' = nextRun + 1
    /\ UNCHANGED <<isProcessing, queue, batchIdx, nextId, revokes,
                   batchStarts, batchLog, saves>>

\* The "Process now" button of a pending record.
ProcessNow(i) ==
    /\ images[i].status = "pending"
    /\ StartManual(images[i])

\* The "Try Again" button of a record in error.
TryAgain(i) ==
    /\ images[i].status = "error"
    /\ StartManual(images[i])

\* processSingleImage returns after its last setImages left imgs: a manual
\* run just ends, a batch run resumes the loop of startBatchProcess.
EndRun(r, imgs, ok) ==
    IF r.src = "batch"
    THEN /\ batchLog' = Append(batchLog, [id |-> r.image.id, ok |-> ok])
         /\ BatchContinue(imgs, DropRun(runs, r), queue, batchIdx + 1, batchStarts)
         /\ UNCHANGED queue
    ELSE /\ images' = imgs
         /\ runs' = DropRun(runs, r)
         /\ UNCHANGED <<isProcessing, queue, batchIdx, nextRun, batchStarts, batchLog>>

\* Mutant of Catch: the error is recorded and thrown on, which ends the loop
\* of startBatchProcess before it clears the flag.
CatchRethrow(r, err) ==
    /\ images' = UpdateRecord(images, r.image.id, ErrorPatch(err))
    /\ runs' = DropRun(runs, r)
    /\ batchLog' = IF r.src = "batch"
                   THEN Append(batchLog, [id |-> r.image.id, ok |-> FALSE]) ELSE batchLog
    /\ UNCHANGED <<isProcessing, queue, batchIdx, nextRun, batchStarts>>

\* catch (err): the record goes to error, and the call returns.
Catch(r, err) ==
    EndRun(r, UpdateRecord(images, r.image.id, ErrorPatch(err)), FALSE)

\* await fetch(image.originalUrl) and await response.blob() resolve (the two
\* awaits of reading the bytes, with no step of the function between them; a
\* revoked object URL cannot be read): the record goes to processing and
\* imglyRemoveBackground is called.
ReadOk(r) ==
    /\ r.pc = "read"
    /\ revokes[r.image.originalUrl] = 0
    /\ images' = UpdateRecord(images, r.image.id, ProcessingPatch)
    /\ runs' = MoveRun(runs, r, [r EXCEPT !.pc = "removeBg"])
    /\ UNCHANGED <<isProcessing, queue, batchIdx, nextRun, nextId, revokes,
                   batchStarts, batchLog, manualIds, saves>>

\* await imglyRemoveBackground(blob) resolves: the processed handle is created
\* and the FileReader is started.
RemoveBgOk(r) ==
    /\ r.pc = "removeBg"
    /\ runs' = MoveRun(runs, r, [r EXCEPT !.pc = "encode",
                                          !.processedUrl = Some(ProcessedUrlOf(revokes, r.image.id))])
    /\ revokes' = CreateUrl(revokes, ProcessedUrlOf(revokes, r.image.id))
    /\ UNCHANGED <<images, isProcessing, queue, batchIdx, nextRun, nextId,
                   batchStarts, batchLog, manualIds, saves>>

\* fetch, response.blob() or imglyRemoveBackground rejects with err.
Fail(r, err) ==
    /\ r.pc \in {"read", "removeBg"}
    /\ Catch(r, err)
    /\ UNCHANGED <<nextId, revokes, manualIds, saves>>

\* await base64Promise resolves (reader.onloadend) and identifySubject is
\* called.
Encode(r) ==
    /\ r.pc = "encode"
    /\ runs' = MoveRun(runs, r, [r EXCEPT !.pc = "identify"])
    /\ UNCHANGED <<images, isProcessing, queue, batchIdx, nextRun, nextId, revokes,
                   batchStarts, batchLog, manualIds, saves>>

\* await identifySubject(base64) settles: base64 is what the FileReader had
\* delivered (the data URL, or null when the read failed; nothing reads it
\* before this call), resp what the model call did.
Identify(r, base64, resp) ==
    /\ r.pc = "identify"
    /\ LET res == IdentifySubject(base64, resp) IN
       IF res.ok
       THEN EndRun(r, UpdateRecord(images, r.image.id,
                                   CompletedPatch(r.processedUrl[1], res.value)), TRUE)
       ELSE Catch(r, res.err)
    /\ UNCHANGED <<nextId, revokes, manualIds, saves>>

\* ------------------------------------------------------------------ Next
Next ==
    \/ \E files \in FilePicks : HandleFileSelect(files)
    \/ \E id \in 1..(nextId - 1) : RemoveImage(id)
    \/ Reset
    \/ StartBatchProcess
    \/ \E i \in DOMAIN images : ProcessNow(i)
    \/ \E i \in DOMAIN images : TryAgain(i)
    \/ \E r \in BagToSet(runs) : ReadOk(r)
    \/ \E r \in BagToSet(runs) : RemoveBgOk(r)
    \/ \E r \in BagToSet(runs), err \in Errs : Fail(r, err)
    \/ \E r \in BagToSet(runs) : Encode(r)
    \/ \E r \in BagToSet(runs), base64 \in Base64s, resp \in Responses : Identify(r, base64, resp)

Spec == Init /\ [][Next]_vars

\* ------------------------------------------------------ ids as the code draws them
\* The ids Math.random can give: nothing in handleFileSelect compares a new id
\* with the ids in the registry, so a draw can repeat an earlier one.
IdPool == 1..MaxFiles

NextRandomIds ==
    \/ \E files \in FilePicks : \E ids \in [1..Len(files) -> IdPool] :
           HandleFileSelectIds(files, ids)
    \/ \E id \in IdPool : RemoveImage(id)
    \/ Reset
    \/ StartBatchProcess
    \/ \E i \in DOMAIN images : ProcessNow(i)
    \/ \E i \in DOMAIN images : TryAgain(i)
    \/ \E r \in BagToSet(runs) : ReadOk(r)
    \/ \E r \in BagToSet(runs) : RemoveBgOk(r)
    \/ \E r \in BagToSet(runs), err \in Errs : Fail(r, err)
    \/ \E r \in BagToSet(runs) : Encode(r)
    \/ \E r \in BagToSet(runs), base64 \in Base64s, resp \in Responses : Identify(r, base64, resp)

SpecRandomIds == Init /\ [][NextRandomIds]_vars

\* ------------------------------------------------------------------ download
\* Size of the registries the download operations are applied to.
MaxRegistry == 3

\* The first match of /\.[^/.]+$/ in s starts at i: a dot, then one character
\* or more, none of them a slash or a dot, up to the end of s.
ExtAt(s, i) ==
    /\ s[i] = "."
    /\ i < Len(s)
    /\ \A k \in (i + 1)..Len(s) : s[k] \notin {"/", "."}

\* Mutant of StripExt: everything from the first dot on is cut.
StripExtFirstDot(s) ==
    IF \E i \in DOMAIN s : s[i] = "."
    THEN SubSeq(s, 1, (CHOOSE i \in DOMAIN s :
                           s[i] = "." /\ \A j \in 1..(i - 1) : s[j] # ".") - 1)
    ELSE s

\* img.originalName.replace(/\.[^/.]+$/, "")
StripExt(s) ==
    IF \E i \in DOMAIN s : ExtAt(s, i)
    THEN SubSeq(s, 1, (CHOOSE i \in DOMAIN s :
                           ExtAt(s, i) /\ \A j \in 1..(i - 1) : ~ExtAt(s, j)) - 1)
    ELSE s

\* img.subject.replace(/\s+/g, '_')
RECURSIVE ReplaceWs(_)
ReplaceWs(s) ==
    IF s = <<>> THEN <<>>
    ELSE IF Head(s) \in Whitespace THEN <<"_">> \o ReplaceWs(TrimLeft(s))
    ELSE <<Head(s)>> \o ReplaceWs(Tail(s))

MagicCutoutPng ==
    <<"-", "m", "a", "g", "i", "c", "-", "c", "u", "t", "o", "u", "t", ".", "p", "n", "g">>

\* img.subject ? `${...}-` : ''  (undefined and "" are falsy)
SubjectPrefix(img) ==
    IF img.subject # None /\ img.subject[1] # <<>>
    THEN ReplaceWs(img.subject[1]) \o <<"-">>
    ELSE <<>>

\* link.download
DownloadName(img) == SubjectPrefix(img) \o StripExt(img.originalName) \o MagicCutoutPng

\* The saves downloadImage(img) triggers: none without processedUrl, else
\* one click on a link to it.
DownloadSaves(img) ==
    IF img.processedUrl = None THEN <<>>
    ELSE <<[href |-> img.processedUrl[1], download |-> DownloadName(img)]>>

\* Mutant of DownloadAllSaves: every record with a result is saved, whatever
\* its status.
RECURSIVE DownloadAllByUrl(_)
DownloadAllByUrl(imgs) ==
    IF imgs = <<>> THEN <<>>
    ELSE DownloadSaves(Head(imgs)) \o DownloadAllByUrl(Tail(imgs))

\* images.forEach(img => { if (img.status === 'completed') downloadImage(img) })
RECURSIVE DownloadAllSaves(_)
DownloadAllSaves(imgs) ==
    IF imgs = <<>> THEN <<>>
    ELSE (IF Head(imgs).status = "completed" THEN DownloadSaves(Head(imgs)) ELSE <<>>)
             \o DownloadAllSaves(Tail(imgs))

ArchiveTarGz == <<"a", ".", "t", "a", "r", ".", "g", "z">>

Readme == <<"R", "E", "A", "D", "M", "E">>

DotHidden == <<".", "e", "n", "v">>

GoldenRetriever ==
    <<"g", "o", "l", "d", "e", "n", " ", "r", "e", "t", "r", "i", "e", "v", "e", "r">>

\* A label with runs of whitespace inside (trim only cuts the ends).
TabbyCat == <<"t", "a", "b", "b", "y", " ", "\t", "\n", "c", "a", "t">>

\* What the registry can hold between pipeline runs: a pending record, a
\* failed one, completed ones (always with a result and a subject), and a
\* failed one that kept the result of another run of the same record.
RegistryKinds ==
    { [status |-> "pending",   name |-> PhotoJpg,     result |-> FALSE, subject |-> None,
       error |-> None],
      [status |-> "error",     name |-> PhotoJpg,     result |-> FALSE, subject |-> None,
       error |-> Some("Network error")],
      [status |-> "completed", name |-> PhotoJpg,     result |-> TRUE,
       subject |-> Some(GoldenRetriever), error |-> None],
      [status |-> "completed", name |-> ArchiveTarGz, result |-> TRUE,
       subject |-> Some(MainSubject), error |-> None],
      [status |-> "completed", name |-> Readme,       result |-> TRUE,
       subject |-> Some(TabbyCat), error |-> None],
      [status |-> "error",     name |-> PhotoJpg,     result |-> TRUE,
       subject |-> Some(ProcessedImageLabel), error |-> Some(GenericError)] }

\* What else downloadImage accepts (subject is optional in ProcessedImage):
\* a result without subject or with an empty one, and a name that is all
\* extension.
OtherKinds ==
    { [status |-> "completed", name |-> PhotoJpg,  result |-> TRUE, subject |-> None,
       error |-> None],
      [status |-> "completed", name |-> PhotoJpg,  result |-> TRUE, subject |-> Some(<<>>),
       error |-> None],
      [status |-> "completed", name |-> DotHidden, result |-> TRUE,
       subject |-> Some(GoldenRetriever), error |-> None] }

\* The record of kind kind made from file number n.
RecordOf(kind, n) ==
    [id |-> n, originalName |-> kind.name, originalUrl |-> OriginalUrlOf(n),
     processedUrl |-> IF kind.result THEN Some(<<"processed", n, 1>>) ELSE None,
     status |-> kind.status, subject |-> kind.subject, error |-> kind.error]

DownloadInputs == {RecordOf(kind, 1) : kind \in RegistryKinds \cup OtherKinds}

Registries ==
    UNION { {[i \in 1..n |-> RecordOf(kinds[i], i)] : kinds \in [1..n -> RegistryKinds]} :
            n \in 0..MaxRegistry }

\* A registry as earlier pipeline runs left it, no run in flight, nothing saved.
InitDownload ==
    /\ images \in Registries
    /\ isProcessing = FALSE
    /\ queue = <<>>
    /\ batchIdx = 0
    /\ runs = EmptyBag
    /\ nextRun = 1
    /\ nextId = Len(images) + 1
    /\ revokes = [h \in {images[i].originalUrl : i \in DOMAIN images} \cup
                        {images[i].processedUrl[1] :
                             i \in {j \in DOMAIN images : images[j].processedUrl # None}}
                  |-> 0]
    /\ batchStarts = <<>>
    /\ batchLog = <<>>
    /\ manualIds = {}
    /\ saves = <<>>

\* downloadImage(img).  A behaviour follows one download call: a call reads
\* nothing that an earlier call has written.
DownloadImage(img) ==
    /\ saves = <<>>
    /\ saves' = saves \o DownloadSaves(img)
    /\ UNCHANGED <<images, isProcessing, queue, batchIdx, runs, nextRun, nextId, revokes,
                   batchStarts, batchLog, manualIds>>

\* The "Download PNG" button of a completed record.
DownloadButton(i) ==
    /\ images[i].status = "completed"
    /\ DownloadImage(images[i])

\* downloadAll, behind "Save All" (shown when some record is completed).
DownloadAll ==
    /\ \E i \in DOMAIN images : images[i].status = "completed"
    /\ saves = <<>>
    /\ saves' = saves \o DownloadAllSaves(images)
    /\ UNCHANGED <<images, isProcessing, queue, batchIdx, runs, nextRun, nextId, revokes,
                   batchStarts, batchLog, manualIds>>

NextDownload ==
    \/ DownloadAll
    \/ \E i \in DOMAIN images : DownloadButton(i)
    \/ \E img \in DownloadInputs : DownloadImage(img)

SpecDownload == InitDownload /\ [][NextDownload]_vars

\* ------------------------------------------------------------------ claims
QueueIds == {queue[k].id : k \in DOMAIN queue}

BatchRunsIn(rs) == {r \in BagToSet(rs) : r.src = "batch"}

\* Number of batch runs in flight.
BatchRunCount(rs) == BagCardinality([r \in BatchRunsIn(rs) |-> CopiesIn(r, rs)])

\* The run r takes a step (moves on to its next await, or returns).
Acts(r) == CopiesIn(r, runs') < CopiesIn(r, runs)

\* The batch has started its run for one more snapshot record in this step.
BatchStartsNext ==
    /\ Len(batchStarts) >= 1
    /\ Len(batchStarts') = Len(batchStarts) + 1

PrevBatchId == batchStarts[Len(batchStarts)]

Settled(imgs, id) == HasId(imgs, id) /\ Rec(imgs, id).status \in {"completed", "error"}

\* C1, as stated: in a batch, the run of record i+1 starts (marks the record
\* analyzing, reaches its first await) only when the run of record i has
\* ended and record i is completed or error; at most one batch run is in
\* flight.
C1_SequentialSettled ==
    [][ /\ BatchRunCount(runs') <= 1
        /\ BatchStartsNext =>
              /\ \A r \in BatchRunsIn(runs') : r.image.id # PrevBatchId
              /\ Settled(images', PrevBatchId) ]_vars

\* C1, amended: ... the run of record i has ended, and record i is completed
\* or error unless it has been removed from the registry meanwhile.
C1_Sequential ==
    [][ /\ BatchRunCount(runs') <= 1
        /\ \A r \in BatchRunsIn(runs') : r.image = queue'[batchIdx']
        /\ BatchStartsNext =>
              /\ \A r \in BatchRunsIn(runs') : r.image.id # PrevBatchId
              /\ HasId(images', PrevBatchId) => Settled(images', PrevBatchId) ]_vars

C1_Witness ==
    /\ isProcessing
    /\ batchIdx = 2
    /\ \E r \in BagToSet(runs) : r.src = "batch" /\ r.image = queue[2] /\ r.pc = "removeBg"
    /\ Settled(images, queue[1].id)

\* C2: for every record of the registry, processedUrl is set if and only if
\* the status is completed.
C2_ProcessedIffCompleted ==
    \A i \in DOMAIN images :
        (images[i].processedUrl # None) <=> (images[i].status = "completed")

\* C3: a record's error is set only if its status is error.
C3_ErrorOnlyInError ==
    \A i \in DOMAIN images : images[i].error # None => images[i].status = "error"

\* C4: a record that is completed stays as it is, field by field, for as
\* long as it is in the registry.
C4_CompletedIsFinal ==
    [][ \A i \in DOMAIN images :
            (images[i].status = "completed" /\ HasId(images', images[i].id))
                => Rec(images', images[i].id) = images[i] ]_vars

\* C5: when a run's subject identification settles (background removal has
\* succeeded), the record, if still in the registry, is completed with the
\* run's processed handle and a subject, whatever identification did; when the
\* model call throws, the subject is "Processed Image".
C5_IdentifyNeverFails ==
    [][ \A r \in BagToSet(runs) :
            (r.pc = "identify" /\ Acts(r) /\ HasId(images', r.image.id)) =>
                LET rec == Rec(images', r.image.id) IN
                /\ rec.status = "completed"
                /\ rec.processedUrl = r.processedUrl
                /\ rec.subject # None
                /\ \A base64 \in Base64s, resp \in Responses :
                       (resp.throws /\ Identify(r, base64, resp))
                           => rec.subject = Some(ProcessedImageLabel) ]_vars

C5_Witness ==
    \E i \in DOMAIN images :
        /\ images[i].status = "completed"
        /\ images[i].subject = Some(ProcessedImageLabel)
        /\ images[i].processedUrl # None

\* C6: a failed run never stops the batch. While the flag is set the loop
\* awaits the run of its current snapshot record; the runs the batch has
\* ended are those of the snapshot, in order, all of them once the batch is
\* over; and every snapshot record that only the batch has processed and that
\* is still in the registry is error if its run failed, completed otherwise.
C6_BatchContainsFailures ==
    /\ isProcessing => \E r \in BagToSet(runs) : r.src = "batch" /\ r.image = queue[batchIdx]
    /\ Len(batchLog) <= Len(queue)
    /\ \A k \in DOMAIN batchLog : batchLog[k].id = queue[k].id
    /\ (~isProcessing /\ batchIdx > 0) => Len(batchLog) = Len(queue)
    /\ \A k \in DOMAIN batchLog :
           (HasId(images, batchLog[k].id) /\ batchLog[k].id \notin manualIds) =>
               Rec(images, batchLog[k].id).status =
                   IF batchLog[k].ok THEN "completed" ELSE "error"

C6_Witness ==
    /\ ~isProcessing
    /\ Len(batchLog) = 2
    /\ ~batchLog[1].ok
    /\ batchLog[2].ok
    /\ HasId(images, batchLog[1].id) /\ Rec(images, batchLog[1].id).status = "error"
    /\ HasId(images, batchLog[2].id) /\ Rec(images, batchLog[2].id).status = "completed"

\* Any step of the pipeline run r.
RunStep(r) ==
    \/ ReadOk(r)
    \/ RemoveBgOk(r)
    \/ \E err \in Errs : Fail(r, err)
    \/ Encode(r)
    \/ \E base64 \in Base64s, resp \in Responses : Identify(r, base64, resp)

\* Every await of a run of the batch settles: the collaborator call returns
\* or fails, and the run takes its next step.
FairSpec == Spec /\ WF_vars(\E r \in BatchRunsIn(runs) : RunStep(r))

\* C7: removing a record leaves the registry one shorter at once and cancels
\* no run; an id that has left the registry never comes back; a step of a run
\* whose record is gone changes no record (but for the next record of the
\* batch, which the resumed loop marks analyzing); such a run can always take
\* its next step, and a batch in progress keeps awaiting a run.
C7_RemovedMidFlight ==
    /\ [][ /\ \A id \in Ids(images) :
                 RemoveImage(id) =>
                     /\ Len(images') = Len(images) - 1
                     /\ ~HasId(images', id)
                     /\ runs' = runs
           /\ \A id \in Ids(images') : HasId(images, id) \/ id >= nextId
           /\ \A r \in BagToSet(runs) :
                 (~HasId(images, r.image.id) /\ Acts(r)) =>
                     /\ Len(images') = Len(images)
                     /\ \A i \in DOMAIN images :
                            \/ images'[i] = images[i]
                            \/ /\ r.src = "batch"
                               /\ isProcessing'
                               /\ images[i].id = queue[batchIdx'].id
                               /\ images'[i] = Patch(images[i], AnalyzingPatch) ]_vars
    /\ [](\A r \in BagToSet(runs) : ~HasId(images, r.image.id) => ENABLED RunStep(r))
    /\ [](isProcessing => BatchRunsIn(runs) # {})

C7_Witness ==
    /\ isProcessing
    /\ Len(images) >= 1
    /\ \E r \in BagToSet(runs) :
          /\ r.src = "batch"
          /\ r.pc = "identify"
          /\ ~HasId(images, r.image.id)

\* C8: no two pipeline runs are in flight for the same record id.
C8_DisjointRuns ==
    \A r1, r2 \in BagToSet(runs) :
        r1.image.id = r2.image.id => (r1 = r2 /\ CopiesIn(r1, runs) = 1)

\* C9: the snapshot of a batch is exactly the records pending when it is
\* started, in registry order, and is fixed while the batch runs; the batch
\* starts one run per snapshot record, in order, all of them by the time it is
\* over; and a pending record leaves pending only by the run the batch starts
\* for it as a snapshot record or by a manual trigger.
C9_BatchSnapshot ==
    [][ /\ (~isProcessing /\ isProcessing') =>
              /\ Len(queue') = Cardinality({i \in DOMAIN images : images[i].status = "pending"})
              /\ \A k \in DOMAIN queue' :
                     \E i \in DOMAIN images : images[i] = queue'[k] /\ images[i].status = "pending"
              /\ \A k1, k2 \in DOMAIN queue' :
                     k1 < k2 =>
                         \E i1, i2 \in DOMAIN images :
                             i1 < i2 /\ images[i1] = queue'[k1] /\ images[i2] = queue'[k2]
        /\ isProcessing => queue' = queue
        /\ Len(batchStarts') <= Len(queue')
        /\ \A k \in DOMAIN batchStarts' : batchStarts'[k] = queue'[k].id
        /\ (~isProcessing' /\ batchIdx' > 0) => Len(batchStarts') = Len(queue')
        /\ \A i \in DOMAIN images :
               (/\ images[i].status = "pending"
                /\ HasId(images', images[i].id)
                /\ Rec(images', images[i].id).status # "pending") =>
                   \/ /\ images[i].id \in manualIds'
                      /\ images[i].id \notin manualIds
                   \/ /\ Len(batchStarts') >= 1
                      /\ batchStarts'[Len(batchStarts')] = images[i].id
                      /\ batchStarts' # batchStarts ]_vars

C9_Witness ==
    /\ isProcessing
    /\ Len(queue) >= 1
    /\ \E i \in DOMAIN images :
          /\ images[i].status = "pending"
          /\ images[i].id \notin QueueIds

\* C10: when Reset empties the registry, every handle the records held
\* (originalUrl, and processedUrl where set) has been released.
C10_ResetReleases ==
    [][ Reset =>
            \A i \in DOMAIN images :
                /\ revokes'[images[i].originalUrl] >= 1
                /\ images[i].processedUrl # None
                       => revokes'[images[i].processedUrl[1]] >= 1 ]_vars

\* The handles the record img holds.
HandlesOf(img) ==
    {img.originalUrl} \cup (IF img.processedUrl # None THEN {img.processedUrl[1]} ELSE {})

\* C11: removeImage(id) of a record of the registry releases each handle the
\* record holds once and no other handle; removeImage(id) of an id that is
\* not in the registry changes nothing, and removeImage can always be called;
\* no handle is released twice, and no handle held by a record of the
\* registry has been released.
C11_RemoveReleasesOnce ==
    /\ [][ \A id \in 1..(nextId - 1) :
               RemoveImage(id) =>
                   IF HasId(images, id)
                   THEN \A h \in DOMAIN revokes :
                            revokes'[h] = revokes[h] +
                                (IF h \in HandlesOf(Rec(images, id)) THEN 1 ELSE 0)
                   ELSE UNCHANGED vars ]_vars
    /\ [](\A id \in 1..(nextId - 1) : ENABLED RemoveImage(id))
    /\ [](\A h \in DOMAIN revokes : revokes[h] <= 1)
    /\ [](\A i \in DOMAIN images : \A h \in HandlesOf(images[i]) : revokes[h] = 0)

C11_Witness ==
    /\ \E h \in DOMAIN revokes : h[1] = "processed" /\ revokes[h] = 1
    /\ \E h \in DOMAIN revokes : h[1] = "original" /\ revokes[h] = 1
    /\ \E h \in DOMAIN revokes : h[1] = "original" /\ revokes[h] = 0
    /\ Len(images) = 1

\* The status changes of the pipeline state machine.
AllowedTransitions ==
    { <<"pending", "analyzing">>, <<"analyzing", "processing">>,
      <<"processing", "completed">>, <<"processing", "error">>,
      <<"analyzing", "error">>, <<"error", "analyzing">> }

\* C12: a record enters the registry pending, and every change of a
\* record's status is one of the transitions of the pipeline state machine.
C12_StateMachine ==
    [][ \A i \in DOMAIN images' :
            LET id == images'[i].id IN
            IF HasId(images, id)
            THEN \/ Rec(images, id).status = images'[i].status
                 \/ <<Rec(images, id).status, images'[i].status>> \in AllowedTransitions
            ELSE images'[i].status = "pending" ]_vars

\* The ways subject identification can fail: the model call throws (network
\* failure, unreadable response), the image encoding is missing, or the
\* response carries no text, an empty text or a blank text.
ThrowingMode(base64, resp) == resp.throws \/ base64 = None

EmptyMode(base64, resp) ==
    /\ ~ThrowingMode(base64, resp)
    /\ resp.text \in {None, Some(<<>>), Some(<<" ", " ">>)}

FailureMode(base64, resp) == ThrowingMode(base64, resp) \/ EmptyMode(base64, resp)

\* A run at its identification call takes its step and its record is still
\* in the registry.
Identifies(r) == r.pc = "identify" /\ Acts(r) /\ HasId(images', r.image.id)

\* The record of run r after the step.
Labelled(r, status, subject) ==
    /\ Rec(images', r.image.id).status = status
    /\ Rec(images', r.image.id).subject = Some(subject)

\* C13 (as stated): every failure mode of subject identification gives one and
\* the same fallback label, the one a network failure gives, and the failure
\* never reaches the caller (the record of the run is completed, not failed).
C13_OneFallback ==
    [][ \A r \in BagToSet(runs) :
            Identifies(r) =>
                \A base64 \in Base64s, resp \in Responses :
                    \/ ~FailureMode(base64, resp)
                    \/ Labelled(r, "completed",
                                IdentifySubject(Some("data:image/jpeg;base64,AAAA"),
                                                [throws |-> TRUE, text |-> None]).value)
                    \/ ~Identify(r, base64, resp) ]_vars

\* C13 (amended): subject identification never throws to its caller and maps
\* each failure mode to a fixed fallback label: "Processed Image" when the
\* call throws or the encoding is missing, "Main Subject" when the response
\* text is absent, empty or blank; any other text is returned trimmed.
C13_TwoFallbacks ==
    [][ \A r \in BagToSet(runs) :
            Identifies(r) =>
                \A base64 \in Base64s, resp \in Responses :
                    \/ Labelled(r, "completed",
                                CASE ThrowingMode(base64, resp) ->
                                         <<"P", "r", "o", "c", "e", "s", "s", "e", "d", " ",
                                           "I", "m", "a", "g", "e">>
                                  [] EmptyMode(base64, resp) ->
                                         <<"M", "a", "i", "n", " ", "S", "u", "b", "j", "e", "c", "t">>
                                  [] OTHER -> <<"d", "o", "g">>)
                    \/ ~Identify(r, base64, resp) ]_vars

\* Two completed records, one labelled by each fallback.
C13_Witness ==
    /\ \E i \in DOMAIN images :
           images[i].status = "completed" /\ images[i].subject = Some(MainSubject)
    /\ \E i \in DOMAIN images :
           images[i].status = "completed" /\ images[i].subject = Some(ProcessedImageLabel)

\* The run r as it would be further down its pipeline.
Later(r) == {[r EXCEPT !.pc = pc] : pc \in {"removeBg", "encode", "identify"}} \ {r}

\* C14: when reading the bytes or removing the background fails with err for
\* the run r, the record of r (if still in the registry) goes to error with
\* the message of err, or with "Failed to process image" when err has no
\* message or an empty one; the run has made no processed handle and makes
\* none, it ends there and never reaches subject identification, and the
\* step leaves the record's processedUrl and subject as they were.
C14_FailureToError ==
    [][ \A r \in BagToSet(runs) :
            (r.pc \in {"read", "removeBg"} /\ Acts(r)) =>
                \A err \in Errs :
                    \/ /\ r.processedUrl = None
                       /\ revokes' = revokes
                       /\ \A q \in Later(r) : CopiesIn(q, runs') <= CopiesIn(q, runs)
                       /\ HasId(images', r.image.id) =>
                              LET old == Rec(images, r.image.id)
                                  new == Rec(images', r.image.id)
                              IN  /\ new.status = "error"
                                  /\ new.error =
                                         Some(IF err.message = Some("Network error")
                                              THEN "Network error"
                                              ELSE "Failed to process image")
                                  /\ new.processedUrl = old.processedUrl
                                  /\ new.subject = old.subject
                    \/ ~Fail(r, err) ]_vars

\* One record failed with a message and one without, neither with a result.
C14_Witness ==
    /\ \E i \in DOMAIN images :
           /\ images[i].status = "error" /\ images[i].error = Some("Network error")
           /\ images[i].processedUrl = None /\ images[i].subject = None
    /\ \E i \in DOMAIN images :
           /\ images[i].status = "error" /\ images[i].error = Some(GenericError)
           /\ images[i].processedUrl = None /\ images[i].subject = None

\* C15: startBatchProcess with a pending record sets the flag, and nothing
\* else does; the flag is set exactly while a run of the batch is in flight,
\* and is cleared only by the step that ends the run of the last snapshot
\* record, all snapshot records having had their run; every await settling,
\* a set flag is eventually cleared; with no pending record startBatchProcess
\* can change nothing.
C15_BatchFlag ==
    /\ [][ isProcessing' \/ PendingOf(images) = <<>> \/ ~StartBatchProcess ]_vars
    /\ [][ (~isProcessing /\ isProcessing') =>
               (StartBatchProcess /\ PendingOf(images) # <<>>) ]_vars
    /\ [](isProcessing <=> BatchRunCount(runs) = 1)
    /\ [][ (isProcessing /\ ~isProcessing') =>
               /\ \E r \in BatchRunsIn(runs) :
                      Acts(r) /\ r.image.id = queue[Len(queue)].id
               /\ Len(batchLog') = Len(queue)
               /\ batchStarts' = [k \in DOMAIN queue |-> queue[k].id]
               /\ BatchRunCount(runs') = 0 ]_vars
    /\ [](PendingOf(images) = <<>> => ~ENABLED <<StartBatchProcess>>_vars)
    /\ (isProcessing ~> ~isProcessing)

\* The flag is clear again after a batch of two records, the first of which
\* failed and the second of which was removed from the registry.
C15_Witness ==
    /\ ~isProcessing
    /\ Len(queue) = 2 /\ Len(batchLog) = 2
    /\ ~batchLog[1].ok
    /\ ~HasId(images, queue[2].id)
    /\ HasId(images, queue[1].id)

\* C16: no two records of the registry have the same id, whatever ids
\* handleFileSelect draws.
C16_UniqueIds ==
    \A i, j \in DOMAIN images : images[i].id = images[j].id => i = j

\* The ids of the records of imgs, in registry order.
IdSeq(imgs) == [i \in DOMAIN imgs |-> imgs[i].id]

\* C17: handleFileSelect(files) makes the registry Len(files) longer, the new
\* records last and in the order of files; removeImage(id) makes it one
\* shorter when id is in the registry and leaves it alone otherwise, the
\* other records keeping their order; only these two and Reset (which empties
\* the registry) change which records the registry holds: every other step,
\* the status updates of the pipeline among them, keeps the records' ids and
\* their order.
C17_SizeAndOrder ==
    /\ [][ LET added == nextId' - nextId
               add == \E files \in FilePicks : HandleFileSelect(files)
               remove == \E id \in 1..(nextId - 1) : RemoveImage(id)
           IN  /\ \A files \in FilePicks :
                      (added > 0 /\ added = Len(files) /\ HandleFileSelect(files)) =>
                          /\ Len(images') = Len(images) + Len(files)
                          /\ SubSeq(images', 1, Len(images)) = images
                          /\ \A k \in 1..Len(files) :
                                 /\ images'[Len(images) + k].id = nextId + k - 1
                                 /\ images'[Len(images) + k].originalName = files[k]
               /\ \A id \in 1..(nextId - 1) :
                      (Len(images') < Len(images) /\ RemoveImage(id)) =>
                          /\ HasId(images, id)
                          /\ Len(images') = Len(images) - 1
                          /\ IdSeq(images') = SelectSeq(IdSeq(images), LAMBDA n : n # id)
               /\ (IdSeq(images') # IdSeq(images)) => (add \/ remove \/ Reset) ]_vars
    /\ [](\A id \in 1..(nextId - 1) :
              ~HasId(images, id) => ~ENABLED <<RemoveImage(id)>>_vars)

\* The first of two records has been removed; the second, added after it, is
\* the only record left and has been through the pipeline.
C17_Witness ==
    /\ nextId = 3
    /\ revokes[OriginalUrlOf(1)] = 1
    /\ IdSeq(images) = <<2>>
    /\ images[1].status = "completed"

\* The completed records of the registry, in registry order.
Completed(imgs) == SelectSeq(imgs, LAMBDA img : img.status = "completed")

\* C18: downloadAll triggers one save for each record that is completed at the
\* call, in registry order, each of the record's result, and none for any
\* other record, even one that holds a result; it changes no record.
C18_DownloadAll ==
    [][ DownloadAll =>
            /\ Len(saves') = Len(Completed(images))
            /\ \A k \in DOMAIN saves' :
                   Some(saves'[k].href) = Completed(images)[k].processedUrl
            /\ images' = images ]_vars

\* Three records, the second failed: the first and the third are saved.
C18_Witness ==
    /\ Len(images) = 3
    /\ images[1].status = "completed"
    /\ images[2].status = "error" /\ images[2].processedUrl = None
    /\ images[3].status = "completed"
    /\ Len(saves) = 2
    /\ saves[1].href = images[1].processedUrl[1]
    /\ saves[2].href = images[3].processedUrl[1]

\* The name a save of img is expected to carry.
ExpectedName(img) ==
    (CASE img.subject = Some(GoldenRetriever) ->
              <<"g", "o", "l", "d", "e", "n", "_", "r", "e", "t", "r", "i", "e", "v", "e", "r",
                "-">>
       [] img.subject = Some(TabbyCat) ->
              <<"t", "a", "b", "b", "y", "_", "c", "a", "t", "-">>
       [] img.subject = Some(MainSubject) ->
              <<"M", "a", "i", "n", "_", "S", "u", "b", "j", "e", "c", "t", "-">>
       [] img.subject = Some(ProcessedImageLabel) ->
              <<"P", "r", "o", "c", "e", "s", "s", "e", "d", "_", "I", "m", "a", "g", "e", "-">>
       [] OTHER -> <<>>)
    \o
    (CASE img.originalName = PhotoJpg -> <<"p", "h", "o", "t", "o">>
       [] img.originalName = ArchiveTarGz -> <<"a", ".", "t", "a", "r">>
       [] img.originalName = Readme -> <<"R", "E", "A", "D", "M", "E">>
       [] OTHER -> <<>>)
    \o
    <<"-", "m", "a", "g", "i", "c", "-", "c", "u", "t", "o", "u", "t", ".", "p", "n", "g">>

\* C19: downloadImage of a record with a result triggers one save, named by
\* the subject with each run of whitespace replaced by one underscore and
\* followed by "-" (nothing when the subject is absent or empty), then the
\* original name without its last extension (a last dot and the characters
\* after it), then "-magic-cutout.png"; without a result it triggers none.
\* The saves of downloadAll carry the same names.
C19_DownloadName ==
    /\ [][ \A img \in DownloadInputs \cup {images[i] : i \in DOMAIN images} :
               DownloadImage(img) =>
                   saves' = IF img.processedUrl = None THEN <<>>
                            ELSE <<[href |-> img.processedUrl[1],
                                    download |-> ExpectedName(img)]>> ]_vars
    /\ [][ DownloadAll =>
               \A k \in DOMAIN saves' :
                   saves'[k].download = ExpectedName(Completed(images)[k]) ]_vars

\* "photo.jpg" with subject "golden retriever" has been saved.
C19_Witness ==
    /\ Len(saves) = 1
    /\ \E i \in DOMAIN images :
           /\ images[i].originalName = <<"p", "h", "o", "t", "o", ".", "j", "p", "g">>
           /\ images[i].subject = Some(GoldenRetriever)
           /\ saves[1].href = images[i].processedUrl[1]
    /\ saves[1].download =
           <<"g", "o", "l", "d", "e", "n", "_", "r", "e", "t", "r", "i", "e", "v", "e", "r", "-",
             "p", "h", "o", "t", "o",
             "-", "m", "a", "g", "i", "c", "-", "c", "u", "t", "o", "u", "t", ".", "p", "n", "g">>

\* C20: a step of a pipeline run of record A keeps the records of the
\* registry and their order (what was added stays, what was removed stays
\* removed), changes no other record (the step that ends a run of the batch
\* is also the first write of the next snapshot record, which it marks
\* analyzing) and changes in A's record, as it is in the registry at that
\* step, only the fields it writes: the status, the error when it fails, the
\* result and the subject when it completes.  The first write of a run
\* (manual trigger or start of the batch) changes the status of its record
\* and nothing else.
C20_NoLostUpdate ==
    /\ [][ \A r \in BagToSet(runs) :
               Acts(r) =>
                   /\ IdSeq(images') = IdSeq(images)
                   /\ \A i \in DOMAIN images :
                          IF images[i].id = r.image.id
                          THEN /\ images'[i].originalName = images[i].originalName
                               /\ images'[i].originalUrl = images[i].originalUrl
                               /\ r.pc # "identify" =>
                                      /\ images'[i].processedUrl = images[i].processedUrl
                                      /\ images'[i].subject = images[i].subject
                               /\ images'[i].error # images[i].error =>
                                      /\ r.pc \in {"read", "removeBg"}
                                      /\ images'[i].status = "error"
                          ELSE \/ images'[i] = images[i]
                               \/ /\ r.src = "batch"
                                  /\ batchIdx' \in DOMAIN queue
                                  /\ images[i].id = queue[batchIdx'].id
                                  /\ images'[i] = [images[i] EXCEPT !.status = "analyzing"] ]_vars
    /\ [][ (nextRun' # nextRun /\ BagCardinality(runs') > BagCardinality(runs)) =>
               /\ IdSeq(images') = IdSeq(images)
               /\ \E i \in DOMAIN images :
                      /\ images[i].status \in {"pending", "error"}
                      /\ images'[i] = [images[i] EXCEPT !.status = "analyzing"]
                      /\ \A j \in DOMAIN images \ {i} : images'[j] = images[j] ]_vars

\* The result of a manual run of a record has been written: the error that a
\* run of the batch recorded for the same record meanwhile is still there, and
\* the other record, removed meanwhile, has not come back.
C20_Witness ==
    /\ Len(images) = 1 /\ nextId = 3
    /\ images[1].status = "completed"
    /\ images[1].error # None
    /\ images[1].id \in manualIds \cap QueueIds

\* The processed handles that records of the registry reference.
Referenced == {images[i].processedUrl[1] :
                   i \in {j \in DOMAIN images : images[j].processedUrl # None}}

\* C21: when no pipeline run is in flight, every processed handle that a run
\* has created and that no record of the registry references has been
\* released.
C21_NoProcessedLeak ==
    runs = EmptyBag =>
        \A h \in DOMAIN revokes :
            (h[1] = "processed" /\ h \notin Referenced) => revokes[h] >= 1

====
